---- MODULE Spec2Model ----
(***************************************************************************)
(* Protocol engine of the SMSD-LAN stepper-motor controller driver:        *)
(* serial byte-stuffing (smsd/client.py), frame codec and command          *)
(* dispatcher (smsd/smsd.py).                                              *)
(***************************************************************************)
EXTENDS Integers, Sequences, FiniteSets, TLC

VARIABLES
    \* ---- pure-function harness (escape layer, frame codec) ----
    packet,      \* argument of _escape
    escaped,     \* _escape(packet)
    unescaped,   \* _unescape(escaped)
    pc,          \* position of the harness: "input", "escaped", "unescaped",
                 \* "built", "parsed", "mutated"; "run" in the client model
    \* ---- the client object (Smsd / BaseClient) ----
    transport,   \* "tcp" (SmsdTcpClient) or "usb" (SmsdUsbClient)
    state,       \* "Disconnected", "Ready", "Failed"
    phases,      \* steps BaseClient.__init__ has run, in order
    version,     \* self.version
    cmd_id,      \* next value self.cmd_id yields
    status_powerstep01,  \* the attribute example.py reads from the client
    \* ---- the last operation (history) ----
    op,          \* name of the last public operation called
    nreq,        \* number of request frames built so far
    req_id,      \* value next(self.cmd_id) gave to the last frame built
    buffer,      \* payload handed to the last _make_request
    request,     \* last frame built by _make_request
    sent,        \* bytes handed to the socket / serial port
    exchanges,   \* number of _bus_exchange calls of the last operation
    received,    \* what the transport delivered to that exchange
    answer,      \* bytes _bus_exchange returned
    parsed,      \* outcome of the last _parse_answer
    reply,       \* structure decoded from the last reply
    result,      \* what the last operation returned or raised
    args,        \* arguments of the last public operation called
    mode,        \* the fields get_mode decoded
    \* ---- callers sharing one client object ----
    callers,     \* each caller's position in its operation and what it holds
    socket,      \* the socket: requests on their way to the controller and
                 \* replies on their way back, in order
    serialized,  \* the callers take turns (a mutex around the client object)
    holder       \* the caller whose turn it is

escVars == <<packet, escaped, unescaped>>
concVars == <<callers, socket, serialized, holder>>
objVars_but_cmd_id == <<transport, state, phases, version, status_powerstep01>>
objVars == <<transport, state, phases, version, cmd_id, status_powerstep01>>
opVars == <<op, nreq, req_id, buffer, request, sent, exchanges, received, answer,
            parsed, reply, result, args, mode>>
vars == <<packet, escaped, unescaped, pc, transport, state, phases, version,
          cmd_id, status_powerstep01, op, nreq, req_id, buffer, request, sent,
          exchanges, received, answer, parsed, reply, result, args, mode,
          callers, socket, serialized, holder>>

----------------------------------------------------------------------------
\* Bounds

MaxPacketLen == 3

\* longest payload of the codec harness enumerated byte by byte
MaxPayloadLen == 3

\* requests one client issues under the full environment
MaxRequests == 2

\* requests one client issues when the sequence id is followed around its cycle
WrapRequests == 257

\* operations each of the callers that share a client issues
MaxCalls == 1

----------------------------------------------------------------------------
\* Byte strings

\* the bytes the escape layer is exercised on: the three reserved bytes, the
\* three second bytes of the escape pairs, and an ordinary byte
EscBytes == {0, 122, 123, 126, 250, 251, 254}

RECURSIVE SeqsUpTo(_, _)
SeqsUpTo(S, n) ==
    IF n = 0 THEN {<<>>}
    ELSE LET shorter == SeqsUpTo(S, n - 1)
         IN  shorter \cup {Append(s, b) : s \in {t \in shorter : Len(t) = n - 1}, b \in S}

\* bytes.replace(old, new) for a one-byte old: left to right, every occurrence
RECURSIVE Replace1(_, _, _)
Replace1(s, old, new) ==
    IF s = <<>> THEN <<>>
    ELSE (IF Head(s) = old THEN new ELSE <<Head(s)>>) \o Replace1(Tail(s), old, new)

\* bytes.replace(old, new) for a two-byte old <<o1, o2>>: left to right,
\* non-overlapping occurrences
RECURSIVE Replace2(_, _, _, _)
Replace2(s, o1, o2, new) ==
    IF Len(s) < 2 THEN s
    ELSE IF s[1] = o1 /\ s[2] = o2
         THEN new \o Replace2(SubSeq(s, 3, Len(s)), o1, o2, new)
         ELSE <<s[1]>> \o Replace2(Tail(s), o1, o2, new)

----------------------------------------------------------------------------
\* Serial escape layer (SmsdUsbClient)

\* _escape without the substitution of the end marker
_escape_end_marker_kept(p) ==
    LET p1 == Replace1(p, 250, <<254, 122>>)
        p3 == Replace1(p1, 254, <<254, 126>>)
    IN  <<250>> \o p3 \o <<251>>

_escape(p) ==
    LET p1 == Replace1(p, 250, <<254, 122>>)
        p2 == Replace1(p1, 251, <<254, 123>>)
        p3 == Replace1(p2, 254, <<254, 126>>)
    IN  <<250>> \o p3 \o <<251>>

\* packet[1:-1] of Python: empty when the packet has fewer than 3 bytes
Strip(p) == IF Len(p) < 3 THEN <<>> ELSE SubSeq(p, 2, Len(p) - 1)

\* _unescape with the pair of the escape byte substituted first
_unescape_escape_byte_first(p) ==
    LET q  == Strip(p)
        q1 == Replace2(q, 254, 126, <<254>>)
        q2 == Replace2(q1, 254, 122, <<250>>)
    IN  Replace2(q2, 254, 123, <<251>>)

_unescape(p) ==
    LET q  == Strip(p)
        q1 == Replace2(q, 254, 122, <<250>>)
        q2 == Replace2(q1, 254, 123, <<251>>)
    IN  Replace2(q2, 254, 126, <<254>>)

\* the byte-stuffing the protocol specifies: one pass, each reserved byte
\* becomes its own two-byte pair, between the two markers
RECURSIVE Stuff(_)
Stuff(f) ==
    IF f = <<>> THEN <<>>
    ELSE (CASE Head(f) = 250 -> <<254, 122>>
            [] Head(f) = 251 -> <<254, 123>>
            [] Head(f) = 254 -> <<254, 126>>
            [] OTHER -> <<Head(f)>>) \o Stuff(Tail(f))

Stuffed(f) == <<250>> \o Stuff(f) \o <<251>>

----------------------------------------------------------------------------
\* Frame codec (Smsd)

None == -1

\* size of LAN_COMMAND_TYPE.DATA
DataSize == 1024

Min(a, b) == IF a < b THEN a ELSE b

RECURSIVE Sum(_)
Sum(s) ==
    IF Len(s) = 0 THEN 0
    ELSE IF Len(s) = 1 THEN s[1]
    ELSE LET h == Len(s) \div 2
         IN  Sum(SubSeq(s, 1, h)) + Sum(SubSeq(s, h + 1, Len(s)))

\* little-endian integers of 2 and 4 bytes
LE16(n) == <<n % 256, (n \div 256) % 256>>
\* (\div rounds down, so a negative n gives its two's-complement bytes)
LE32(n) ==
    <<n % 256, (n \div 256) % 256, (n \div 65536) % 256, (n \div 16777216) % 256>>

_checksum_no_negation(data) == Sum(data) % 256

\* -sum(data) & 0xFF
_checksum(data) == (0 - Sum(data)) % 256

\* string_at(byref(lan_command_type), 6 + LENGTH): the frame in its wire
\* layout version, type, id, length (little-endian), payload, checksum
LAN_COMMAND_TYPE_bytes(t) ==
    <<t.VER, t.TYPE, t.ID>> \o LE16(t.LENGTH) \o SubSeq(t.DATA, 1, t.LENGTH) \o <<t.XOR>>

\* a byte read through a ctypes cast: the byte of the buffer when the offset
\* (counted from 1) lies inside it, the memory behind the buffer otherwise
At(buf, i, mem) == IF i <= Len(buf) THEN buf[i] ELSE mem

\* cast(buffer, POINTER(LAN_COMMAND_TYPE)).contents: the fields of the wire
\* layout read at their offsets
LAN_COMMAND_TYPE_cast(buf, mem) ==
    LET length == At(buf, 4, mem) + 256 * At(buf, 5, mem)
    IN  [VER    |-> At(buf, 1, mem),
         TYPE   |-> At(buf, 2, mem),
         ID     |-> At(buf, 3, mem),
         LENGTH |-> length,
         DATA   |-> [i \in 1..Min(length, DataSize) |-> At(buf, 5 + i, mem)],
         XOR    |-> At(buf, 6 + length, mem)]

\* the bytes the checksum covers
Summed(t) ==
    <<t.VER, t.TYPE, t.ID, t.LENGTH % 256, t.LENGTH \div 256>>
        \o SubSeq(t.DATA, 1, Min(t.LENGTH, Len(t.DATA)))

\* data = (c_ubyte * 1024)(*bytearray(buffer)): the buffer, zero-filled
Padded(buf, length) == [i \in 1..Min(length, DataSize) |-> At(buf, i, 0)]

\* _make_request returning the whole structure instead of 6 + LENGTH bytes
_make_request_whole_structure(ver, id, command, length, buf) ==
    LET t0 == [VER |-> ver, TYPE |-> command, ID |-> id, LENGTH |-> length,
               DATA |-> Padded(buf, length), XOR |-> 0]
        t  == [t0 EXCEPT !.XOR = _checksum(Summed(t0))]
    IN  LAN_COMMAND_TYPE_bytes([t EXCEPT !.LENGTH = DataSize,
                                         !.DATA = Padded(buf, DataSize)])

_make_request_version_zero(ver, id, command, length, buf) ==
    LET t0 == [VER |-> 0, TYPE |-> command, ID |-> id, LENGTH |-> length,
               DATA |-> Padded(buf, length), XOR |-> 0]
        t  == [t0 EXCEPT !.XOR = _checksum(Summed(t0))]
    IN  LAN_COMMAND_TYPE_bytes(t)

\* the frame for command type `command`, stamped with version ver and id
_make_request(ver, id, command, length, buf) ==
    LET t0 == [VER |-> ver, TYPE |-> command, ID |-> id, LENGTH |-> length,
               DATA |-> Padded(buf, length), XOR |-> 0]
        t  == [t0 EXCEPT !.XOR = _checksum(Summed(t0))]
    IN  LAN_COMMAND_TYPE_bytes(t)

NextCmdId_short_cycle(c) == (c + 1) % 255

\* next(self.cmd_id) over cycle(range(256)): the value after c
NextCmdId(c) == (c + 1) % 256

_parse_answer_header_only(buf, mem) ==
    LET t   == LAN_COMMAND_TYPE_cast(buf, mem)
        xor == _checksum(<<t.VER, t.TYPE, t.ID, t.LENGTH % 256, t.LENGTH \div 256>>)
    IN  IF xor # t.XOR
        THEN [ok |-> FALSE, data |-> <<>>]
        ELSE [ok |-> TRUE, data |-> SubSeq(t.DATA, 1, Min(t.LENGTH, Len(t.DATA)))]

\* ok: the checksum agreed and data is the payload; otherwise SMSDError
\* "Invalid message checksum" is raised
_parse_answer(buf, mem) ==
    LET t   == LAN_COMMAND_TYPE_cast(buf, mem)
        xor == _checksum(Summed(t))
    IN  IF xor # t.XOR
        THEN [ok |-> FALSE, data |-> <<>>]
        ELSE [ok |-> TRUE, data |-> SubSeq(t.DATA, 1, Min(t.LENGTH, Len(t.DATA)))]

----------------------------------------------------------------------------
\* Command catalogue and structures (smsd/protocol.py)

\* outer command types; the code of a name is its position, counted from 0
CMD_TYPE ==
    <<"CODE_CMD_REQUEST", "CODE_CMD_PASSWORD_SET", "CODE_CMD_CONFIG_GET",
      "CODE_CMD_CONFIG_SET", "CODE_CMD_ERROR_GET", "CODE_CMD_POWERSTEP01">>

\* motor sub-commands
COMMAND ==
    <<"CMD_POWERSTEP01_GET_MAX_SPEED", "CMD_POWERSTEP01_SET_MAX_SPEED",
      "CMD_POWERSTEP01_GET_RELE", "CMD_POWERSTEP01_GET_MODE",
      "CMD_POWERSTEP01_SET_MODE">>

\* outcome codes
ERROR_OR_COMMAND ==
    <<"OK", "OK_ACCESS", "END_PROGRAMS", "COMMAND_GET_MAX_SPEED",
      "COMMAND_GET_MIN_SPEED", "STATUS_RELE_SET", "STATUS_RELE_CLR",
      "COMMAND_GET_MODE">>

\* Enum member .value
ValueOf(enum, name) == (CHOOSE i \in 1..Len(enum) : enum[i] = name) - 1

\* Enum(value): a member exists
IsMember(enum, value) == value + 1 \in 1..Len(enum)

\* Enum(value).name
NameOf(enum, value) == enum[value + 1]

\* SMSD_CMD_TYPE, motor command record {commandCode: u8, data: i32}
SMSD_CMD_TYPE_bytes(command, value) == <<command % 256>> \o LE32(value)

\* the signed 32-bit integer of four little-endian bytes
Signed32(b0, b1, b2, b3) ==
    b0 + 256 * b1 + 65536 * b2 + 16777216 * (IF b3 >= 128 THEN b3 - 256 ELSE b3)

\* cast(ret_data, POINTER(COMMANDS_RETURN_DATA_TYPE)).contents:
\* {outcomeCode: u16, returnData: i32, powerstepStatus: u16}
COMMANDS_RETURN_DATA_TYPE_cast(ret, mem) ==
    [ERROR_OR_COMMAND   |-> At(ret, 1, mem) + 256 * At(ret, 2, mem),
     RETURN_DATA        |-> Signed32(At(ret, 3, mem), At(ret, 4, mem),
                                     At(ret, 5, mem), At(ret, 6, mem)),
     STATUS_POWERSTEP01 |-> At(ret, 7, mem) + 256 * At(ret, 8, mem)]

NoReply ==
    [ERROR_OR_COMMAND |-> None, RETURN_DATA |-> 0, STATUS_POWERSTEP01 |-> None]

NotParsed == [ok |-> FALSE, data |-> <<>>]

----------------------------------------------------------------------------
\* What an operation returns or raises

\* stage: how far _execute went: "exchange", "empty" (falsy answer),
\* "parse", "struct" (no expected code), "compare" (outcome code examined)
Returned(vtype, val, stage) ==
    [kind |-> "return", vtype |-> vtype, val |-> val, exc |-> "-", msg |-> "-",
     stage |-> stage]

Raised(exc, msg, stage) ==
    [kind |-> "raise", vtype |-> "-", val |-> 0, exc |-> exc, msg |-> msg,
     stage |-> stage]

NoResult == Returned("-", 0, "-")

----------------------------------------------------------------------------
\* Transport exchange (smsd/client.py)

\* size of the single receive of the TCP transport
RecvSize == 2048

\* rx is what the transport delivers: on TCP either a timeout or the bytes of
\* one recv; on the serial port the bytes read_until returned (all that
\* arrived before the timeout when no 0xFB came)
SmsdUsbClient_bus_exchange(pkt, rx) ==
    LET wire == _escape(pkt)
        raw  == rx.bytes
    IN  IF raw = <<>> \/ raw[1] # 250 \/ raw[Len(raw)] # 251
        THEN [sent |-> wire, raised |-> TRUE, exc |-> "SmsdError",
              msg |-> "Invalid message format", answer |-> <<>>]
        ELSE [sent |-> wire, raised |-> FALSE, exc |-> "-", msg |-> "-",
              answer |-> _unescape(raw)]

SmsdTcpClient_bus_exchange_no_timeout(pkt, rx) ==
    [sent |-> pkt, raised |-> FALSE, exc |-> "-", msg |-> "-",
     answer |-> SubSeq(rx.bytes, 1, Min(Len(rx.bytes), RecvSize))]

SmsdTcpClient_bus_exchange(pkt, rx) ==
    IF rx.timeout
    THEN [sent |-> pkt, raised |-> TRUE, exc |-> "timeout", msg |-> "timed out",
          answer |-> <<>>]
    ELSE [sent |-> pkt, raised |-> FALSE, exc |-> "-", msg |-> "-",
          answer |-> SubSeq(rx.bytes, 1, Min(Len(rx.bytes), RecvSize))]

_bus_exchange_serial_layer_on_tcp(tr, pkt, rx) ==
    SmsdUsbClient_bus_exchange(pkt, rx)

_bus_exchange(tr, pkt, rx) ==
    IF tr = "usb" THEN SmsdUsbClient_bus_exchange(pkt, rx)
    ELSE SmsdTcpClient_bus_exchange(pkt, rx)

----------------------------------------------------------------------------
\* Command dispatcher (Smsd)

\* write or structure.RETURN_DATA
SuccessValue_no_write(write, structure) ==
    Returned("int", structure.RETURN_DATA, "compare")

SuccessValue(write, structure) ==
    IF write THEN Returned("bool", 1, "compare")
    ELSE Returned("int", structure.RETURN_DATA, "compare")

\* the part of _execute after the exchange returned `ans`
ExecuteAnswer(ans, err_or_cmd, write, mem) ==
    IF ans = <<>>
    THEN [parsed |-> NotParsed, reply |-> NoReply,
          result |-> Returned("none", 0, "empty")]
    ELSE LET p == _parse_answer(ans, mem)
             structure == COMMANDS_RETURN_DATA_TYPE_cast(p.data, mem)
         IN  IF ~p.ok
             THEN [parsed |-> p, reply |-> NoReply,
                   result |-> Raised("SMSDError", "Invalid message checksum", "parse")]
             ELSE IF err_or_cmd = None
             THEN [parsed |-> p, reply |-> structure,
                   result |-> Returned("struct", 0, "struct")]
             ELSE IF err_or_cmd = structure.ERROR_OR_COMMAND
             THEN [parsed |-> p, reply |-> structure,
                   result |-> SuccessValue(write, structure)]
             ELSE IF IsMember(ERROR_OR_COMMAND, structure.ERROR_OR_COMMAND)
             THEN [parsed |-> p, reply |-> structure,
                   result |-> Raised("SMSDError",
                                     NameOf(ERROR_OR_COMMAND, structure.ERROR_OR_COMMAND),
                                     "compare")]
             ELSE [parsed |-> p, reply |-> structure,
                   result |-> Raised("ValueError", "not a valid ERROR_OR_COMMAND",
                                     "compare")]

\* _execute with the exchange repeated once after a failure
_execute_resend(tr, ver, id, data, err_or_cmd, cmd_type, write, rx, mem) ==
    LET req == _make_request(ver, id, cmd_type, Len(data), data)
        x   == _bus_exchange(tr, req, rx)
        a   == ExecuteAnswer(x.answer, err_or_cmd, write, mem)
    IN  IF x.raised
        THEN [buffer |-> data, request |-> req, sent |-> x.sent, answer |-> <<>>,
              parsed |-> NotParsed, reply |-> NoReply, exchanges |-> 2,
              result |-> Raised(x.exc, x.msg, "exchange")]
        ELSE [buffer |-> data, request |-> req, sent |-> x.sent, answer |-> x.answer,
              parsed |-> a.parsed, reply |-> a.reply,
              exchanges |-> IF a.result.kind = "raise" THEN 2 ELSE 1,
              result |-> a.result]

\* _execute with the reply's sequence id compared with the request's
_execute_id_compared(tr, ver, id, data, err_or_cmd, cmd_type, write, rx, mem) ==
    LET req == _make_request(ver, id, cmd_type, Len(data), data)
        x   == _bus_exchange(tr, req, rx)
        a   == ExecuteAnswer(x.answer, err_or_cmd, write, mem)
    IN  IF x.raised
        THEN [buffer |-> data, request |-> req, sent |-> x.sent, answer |-> <<>>,
              parsed |-> NotParsed, reply |-> NoReply, exchanges |-> 1,
              result |-> Raised(x.exc, x.msg, "exchange")]
        ELSE IF a.parsed.ok /\ At(x.answer, 3, mem) # id
        THEN [buffer |-> data, request |-> req, sent |-> x.sent, answer |-> x.answer,
              parsed |-> NotParsed, reply |-> NoReply, exchanges |-> 1,
              result |-> Raised("SMSDError", "Invalid message id", "parse")]
        ELSE [buffer |-> data, request |-> req, sent |-> x.sent, answer |-> x.answer,
              parsed |-> a.parsed, reply |-> a.reply, exchanges |-> 1,
              result |-> a.result]

\* _execute for the client (tr, ver, id): everything one call produces;
\* exchanges counts its _bus_exchange calls
_execute(tr, ver, id, data, err_or_cmd, cmd_type, write, rx, mem) ==
    LET req == _make_request(ver, id, cmd_type, Len(data), data)
        x   == _bus_exchange(tr, req, rx)
        a   == ExecuteAnswer(x.answer, err_or_cmd, write, mem)
    IN  IF x.raised
        THEN [buffer |-> data, request |-> req, sent |-> x.sent, answer |-> <<>>,
              parsed |-> NotParsed, reply |-> NoReply, exchanges |-> 1,
              result |-> Raised(x.exc, x.msg, "exchange")]
        ELSE [buffer |-> data, request |-> req, sent |-> x.sent, answer |-> x.answer,
              parsed |-> a.parsed, reply |-> a.reply, exchanges |-> 1,
              result |-> a.result]

_powerstep01(tr, ver, id, command, err_or_cmd, value, write, rx, mem) ==
    _execute(tr, ver, id, SMSD_CMD_TYPE_bytes(ValueOf(COMMAND, command), value),
             ValueOf(ERROR_OR_COMMAND, err_or_cmd),
             ValueOf(CMD_TYPE, "CODE_CMD_POWERSTEP01"), write, rx, mem)

_get_param(tr, ver, id, command, err_or_cmd, rx, mem) ==
    _powerstep01(tr, ver, id, command, err_or_cmd, 0, FALSE, rx, mem)

_set_param(tr, ver, id, command, err_or_cmd, value, rx, mem) ==
    _powerstep01(tr, ver, id, command, err_or_cmd, value, TRUE, rx, mem)

\* the password a caller passes: not given (None), or a str of ASCII
\* characters, chars being their codes
NoPassword == [given |-> FALSE, chars |-> <<>>]

Password(chars) == [given |-> TRUE, chars |-> chars]

\* `if password is not None`
Truthy_not_none(password) == password.given

\* `if password`: None and the empty str are falsy
Truthy(password) == password.given /\ password.chars # <<>>

DefaultPassword == <<239, 205, 171, 137, 103, 69, 35, 1>>

PasswordBuffer_unpadded(password) ==
    IF Truthy(password)
    THEN SubSeq(password.chars, 1, Min(Len(password.chars), 8))
    ELSE DefaultPassword

\* (c_ubyte * 8)(*bytearray(password, encoding="ascii")[:8]) if password
\* else (c_ubyte * 8)(*(0xEF, ..., 0x01)): an array of 8 bytes, zero where
\* no initial value is given
PasswordBuffer(password) ==
    IF Truthy(password)
    THEN [i \in 1..8 |-> At(SubSeq(password.chars, 1, Min(Len(password.chars), 8)), i, 0)]
    ELSE DefaultPassword

_password(tr, ver, id, command, err_or_cmd, password, rx, mem) ==
    _execute(tr, ver, id, PasswordBuffer(password),
             ValueOf(ERROR_OR_COMMAND, err_or_cmd), ValueOf(CMD_TYPE, command),
             TRUE, rx, mem)

\* cast(ret_data, POINTER(SMSD_LAN_CONFIG_TYPE)).contents:
\* {mac: byte[6], ip: byte[4], subnet: byte[4], gateway: byte[4],
\*  dns: byte[4], port: u16, dhcp: u8}
SMSD_LAN_CONFIG_TYPE_cast(ret, mem) ==
    [MAC  |-> [i \in 1..6 |-> At(ret, i, mem)],
     IP   |-> [i \in 1..4 |-> At(ret, 6 + i, mem)],
     SN   |-> [i \in 1..4 |-> At(ret, 10 + i, mem)],
     GW   |-> [i \in 1..4 |-> At(ret, 14 + i, mem)],
     DNS  |-> [i \in 1..4 |-> At(ret, 18 + i, mem)],
     PORT |-> At(ret, 23, mem) + 256 * At(ret, 24, mem),
     DHCP |-> At(ret, 25, mem)]

\* cast(ret_data, POINTER(LAN_ERROR_STATISTICS)).contents: counters laid out
\* over the payload; what lies behind the payload is memory
LAN_ERROR_STATISTICS_cast(ret, mem) == [COUNTERS |-> ret, BEHIND |-> mem]

StructCast(struct_type, ret, mem) ==
    IF struct_type = "SMSD_LAN_CONFIG_TYPE"
    THEN SMSD_LAN_CONFIG_TYPE_cast(ret, mem)
    ELSE LAN_ERROR_STATISTICS_cast(ret, mem)

\* _config_or_stats with the outcome code OK expected of the reply
_config_or_stats_code_compared(tr, ver, id, command, struct_type, rx, mem) ==
    _execute(tr, ver, id, <<>>, ValueOf(ERROR_OR_COMMAND, "OK"),
             ValueOf(CMD_TYPE, command), FALSE, rx, mem)

\* create_string_buffer(0) sent with err_or_cmd None; reply is the
\* structure cast as struct_type
_config_or_stats(tr, ver, id, command, struct_type, rx, mem) ==
    LET e == _execute(tr, ver, id, <<>>, None, ValueOf(CMD_TYPE, command),
                      FALSE, rx, mem)
    IN  IF e.parsed.ok
        THEN [e EXCEPT !.reply = StructCast(struct_type, e.parsed.data, mem)]
        ELSE e

\* the dict built from the fields of what _config_or_stats returned: None
\* has no fields
FieldsOf(r) ==
    IF r.kind = "raise" THEN r
    ELSE IF r.vtype = "struct" THEN Returned("dict", 0, "fields")
    ELSE Raised("AttributeError", "'NoneType' object has no attribute", "fields")

GetReleResult_swapped(r) ==
    IF r.kind = "return" THEN Returned("none", 0, r.stage)
    ELSE IF r.exc = "SMSDError" /\ r.msg = "STATUS_RELE_CLR"
    THEN Returned("int", 1, r.stage)
    ELSE IF r.exc = "SMSDError" /\ r.msg = "STATUS_RELE_SET"
    THEN Returned("int", 0, r.stage)
    ELSE r

\* get_rele: the try / except around _get_param
GetReleResult(r) ==
    IF r.kind = "return" THEN Returned("none", 0, r.stage)
    ELSE IF r.exc = "SMSDError" /\ r.msg = "STATUS_RELE_CLR"
    THEN Returned("int", 0, r.stage)
    ELSE IF r.exc = "SMSDError" /\ r.msg = "STATUS_RELE_SET"
    THEN Returned("int", 1, r.stage)
    ELSE r

\* the operators <<, >>, | and & on non-negative integers
RECURSIVE Pow2(_)
Pow2(n) == IF n = 0 THEN 1 ELSE 2 * Pow2(n - 1)

ShiftLeft(a, n) == a * Pow2(n)

ShiftRight(a, n) == a \div Pow2(n)

RECURSIVE BitOr(_, _)
BitOr(a, b) ==
    IF a = 0 THEN b
    ELSE IF b = 0 THEN a
    ELSE (IF a % 2 = 1 \/ b % 2 = 1 THEN 1 ELSE 0) + 2 * BitOr(a \div 2, b \div 2)

RECURSIVE BitAnd(_, _)
BitAnd(a, b) ==
    IF a = 0 \/ b = 0 THEN 0
    ELSE (IF a % 2 = 1 /\ b % 2 = 1 THEN 1 ELSE 0) + 2 * BitAnd(a \div 2, b \div 2)

\* set_mode: the value it hands to _set_param
set_mode_value(current_or_voltage, motor_type, microstepping, work_current, stop_current) ==
    BitOr(BitOr(BitOr(BitOr(ShiftLeft(stop_current, 17), ShiftLeft(work_current, 10)),
                      ShiftLeft(microstepping, 7)),
                ShiftLeft(motor_type, 1)),
          current_or_voltage)

\* get_mode: the dict it builds from the value _get_param returned
get_mode_fields(result_) ==
    [current_or_voltage |-> BitAnd(ShiftRight(result_, 0), 1),
     motor_type         |-> BitAnd(ShiftRight(result_, 1), 63),
     microstepping      |-> BitAnd(ShiftRight(result_, 7), 7),
     work_current       |-> BitAnd(ShiftRight(result_, 10), 127),
     stop_current       |-> BitAnd(ShiftRight(result_, 17), 3),
     program_n          |-> BitAnd(ShiftRight(result_, 19), 3)]

VersionByte_first(ans) == ans[1]

\* answer[1]
VersionByte(ans) == ans[2]

StoredVersion_cleared_on_failure(old, g) == g.version

\* self.version after get_version: assigned only when the answer is truthy
\* and has a byte at offset 1
StoredVersion(old, g) == IF g.result.kind = "return" THEN g.version ELSE old

\* get_version: the exchange with an empty packet, then answer[1]
GetVersion(tr, rx) ==
    LET x == _bus_exchange(tr, <<>>, rx)
    IN  IF x.raised
        THEN [sent |-> x.sent, answer |-> <<>>, version |-> None,
              exchanges |-> 1,
              result |-> Raised(x.exc, x.msg, "exchange")]
        ELSE IF x.answer = <<>>
        THEN [sent |-> x.sent, answer |-> x.answer, version |-> None,
              exchanges |-> 1,
              result |-> Raised("SMSDError", "Get protocol version error", "empty")]
        ELSE IF Len(x.answer) < 2
        THEN [sent |-> x.sent, answer |-> x.answer, version |-> None,
              exchanges |-> 1,
              result |-> Raised("IndexError", "index out of range", "version")]
        ELSE [sent |-> x.sent, answer |-> x.answer,
              version |-> VersionByte(x.answer), exchanges |-> 1,
              result |-> Returned("bool", 1, "version")]

----------------------------------------------------------------------------
\* The controller and the transports: what an exchange can deliver

\* checksum of a frame the controller sends: the frame's bytes sum to 0 mod 256
FrameChecksum(bytes) == (256 - (Sum(bytes) % 256)) % 256

\* a well-formed frame from the controller
DeviceFrame(ver, type, id, payload) ==
    LET h == <<ver, type, id>> \o LE16(Len(payload)) \o payload
    IN  h \o <<FrameChecksum(h)>>

\* reply envelope {outcomeCode, returnData, powerstepStatus}
ReplyPayload(code, data, status) == LE16(code) \o LE32(data) \o LE16(status)

\* the first value that names no outcome code
UnknownCode == Len(ERROR_OR_COMMAND)

ReplyCodes ==
    {ValueOf(ERROR_OR_COMMAND, n) :
        n \in {"OK", "END_PROGRAMS", "COMMAND_GET_MAX_SPEED", "STATUS_RELE_SET",
               "STATUS_RELE_CLR"}} \cup {UnknownCode}

\* <<returnData, powerstepStatus>> of the replies tried
ReplyValues == {<<0, 0>>, <<250, 32769>>, <<-1, 1>>}

Envelope(c, v) == DeviceFrame(2, 1, 9, ReplyPayload(c, v[1], v[2]))

ValidReplies == {Envelope(c, v) : c \in ReplyCodes, v \in ReplyValues}

\* frame f with the byte at position i (from 1) replaced by another value
Corrupt(f, i) == [f EXCEPT ![i] = (f[i] + 1) % 256]

\* replies whose checksum byte disagrees: a payload byte, or the checksum, changed
CorruptReplies ==
    {Corrupt(Envelope(0, <<0, 0>>), i) : i \in {6, 13, 14}}

\* an OK reply that arrives without its last byte, the checksum 0xFF
CutReply == SubSeq(DeviceFrame(2, 1, 246, ReplyPayload(0, 0, 0)), 1, 13)

\* a reply cut short, and a checksum-valid reply with a payload shorter
\* than the envelope
ShortReplies ==
    {SubSeq(Envelope(0, <<0, 0>>), 1, 3), DeviceFrame(2, 1, 9, <<0>>),
     DeviceFrame(2, 1, 9, <<>>), CutReply}

\* an OK reply that carries the command type and the id of the first request
EchoReply == DeviceFrame(2, 5, 0, ReplyPayload(0, 0, 0))

Replies == ValidReplies \cup CorruptReplies \cup ShortReplies \cup {EchoReply}

LeanReplies == {Envelope(0, <<0, 0>>)}

\* replies to the empty handshake packet
HandshakeAnswers == {<<>>, <<0>>, <<0, 7>>, <<0, 7, 0, 0, 0, 249>>, <<254, 2>>}

LeanHandshakeAnswers == {<<>>, <<0, 7>>}

\* replies to get_version called again on a Ready client
RehandshakeAnswers == {<<>>, <<0>>, <<0, 7>>, <<254, 2>>}

\* replies to authorization and set_password
AuthReplies ==
    {DeviceFrame(2, 1, 9, ReplyPayload(ValueOf(ERROR_OR_COMMAND, n), 0, 0)) :
        n \in {"OK", "OK_ACCESS", "END_PROGRAMS"}}

\* no password, the empty str, and strs of 1, 8 and 9 characters
Passwords ==
    {NoPassword, Password(<<>>), Password(<<49>>),
     Password(<<49, 50, 51, 52, 53, 54, 55, 56>>),
     Password(<<49, 50, 51, 52, 53, 54, 55, 56, 57>>)}

\* memory behind a buffer that a cast reads past
MemBytes == {0, 255}

\* a LAN configuration record: 00:80:E1:01:02:03, 192.168.1.2/24, gateway
\* 192.168.1.1, DNS 8.8.8.8, port 5000, DHCP on
LanRecord ==
    <<0, 128, 225, 1, 2, 3>> \o <<192, 168, 1, 2>> \o <<255, 255, 255, 0>>
        \o <<192, 168, 1, 1>> \o <<8, 8, 8, 8>> \o <<136, 19>> \o <<1>>

\* replies to the two read-only queries: a whole record, payloads that read
\* as an error envelope, as an unknown outcome code or as OK, an empty payload,
\* a record cut before its last field, and a reply whose checksum disagrees
ConfigReplies ==
    {DeviceFrame(2, 3, 9, LanRecord),
     DeviceFrame(2, 3, 9, <<>>),
     Envelope(ValueOf(ERROR_OR_COMMAND, "END_PROGRAMS"), <<0, 0>>),
     Envelope(UnknownCode, <<250, 32769>>),
     Envelope(ValueOf(ERROR_OR_COMMAND, "OK"), <<0, 0>>),
     DeviceFrame(2, 3, 9, SubSeq(LanRecord, 1, 24)),
     Corrupt(DeviceFrame(2, 3, 9, LanRecord), 8)}

\* the buffer is shorter than its 6 header and checksum bytes plus the
\* length it embeds
Truncated(buf) ==
    \/ Len(buf) < 6
    \/ Len(buf) < 6 + buf[4] + 256 * buf[5]

\* the answer _bus_exchange gives for what the transport delivers
Delivered(tr, rx) == (_bus_exchange(tr, <<>>, rx)).answer

\* parsing buf and casting its payload to the reply envelope reads bytes
\* behind the buffer
ReadsPast(buf) ==
    /\ buf # <<>>
    /\ (Truncated(buf) \/ buf[4] + 256 * buf[5] < 8)

\* the memory an operation can observe behind the answer to rx
MemBehind(tr, rx) == IF ReadsPast(Delivered(tr, rx)) THEN MemBytes ELSE {0}

\* bytes that follow a reply in the socket's receive buffer
Surplus == [i \in 1..RecvSize |-> 0]

\* what an exchange can deliver on transport tr when the controller answers
\* with one of `frames`; on the serial port those of `broken` can also
\* arrive without their end marker (timeout) or without their start marker,
\* on TCP they can be followed by more bytes than one recv takes
RxOf(tr, frames, broken) ==
    IF tr = "tcp"
    THEN {[timeout |-> TRUE, bytes |-> <<>>]}
         \cup {[timeout |-> FALSE, bytes |-> f] : f \in frames \cup {<<>>}}
         \cup {[timeout |-> FALSE, bytes |-> f \o Surplus] : f \in broken}
    ELSE {[timeout |-> FALSE, bytes |-> Stuffed(f)] : f \in frames \cup {<<>>}}
         \cup {[timeout |-> TRUE, bytes |-> <<>>]}
         \cup {[timeout |-> TRUE, bytes |-> <<250>> \o Stuff(f)] : f \in broken}
         \cup {[timeout |-> FALSE, bytes |-> Stuff(f) \o <<251>>] : f \in broken}

Speeds == {15, 250}

----------------------------------------------------------------------------
\* The client: construction and public operations

NoRx == [timeout |-> FALSE, bytes |-> <<>>]

\* get_mode has not returned
NoMode ==
    [current_or_voltage |-> None, motor_type |-> None, microstepping |-> None,
     work_current |-> None, stop_current |-> None, program_n |-> None]

Callers == {"A", "B"}

IdleCaller ==
    [pc |-> "idle", op |-> "-", expected |-> None, write |-> FALSE,
     request |-> <<>>, answer |-> <<>>, took |-> "-", overtaken |-> FALSE,
     result |-> NoResult, calls |-> 0]

EmptySocket == [toDevice |-> <<>>, toClient |-> <<>>]

\* one caller at a time uses the client
Unshared ==
    /\ callers = [c \in Callers |-> IdleCaller]
    /\ socket = EmptySocket
    /\ serialized = TRUE
    /\ holder = "-"

\* no operation has been called
NoOperation ==
    /\ op = "-"
    /\ nreq = 0
    /\ req_id = None
    /\ buffer = <<>>
    /\ request = <<>>
    /\ sent = <<>>
    /\ exchanges = 0
    /\ received = NoRx
    /\ answer = <<>>
    /\ parsed = NotParsed
    /\ reply = NoReply
    /\ result = NoResult
    /\ args = <<>>
    /\ mode = NoMode

Idle ==
    /\ Unshared
    /\ NoOperation

\* a client class is chosen; Smsd.__init__ has not run yet
Init ==
    /\ packet = <<>> /\ escaped = <<>> /\ unescaped = <<>> /\ pc = "run"
    /\ transport \in {"tcp", "usb"}
    /\ state = "Disconnected"
    /\ phases = <<>>
    /\ version = None
    /\ cmd_id = 0
    /\ status_powerstep01 = None
    /\ Idle

\* BaseClient.__init__: Smsd.__init__, connect(), get_version()
BaseClient_init(answers) ==
    /\ pc = "run"
    /\ state = "Disconnected"
    /\ op' = "__init__"
    /\ cmd_id' = 0
    /\ \E connected \in BOOLEAN, rx \in RxOf(transport, answers, {<<0, 7>>}) :
        IF ~connected
        THEN /\ phases' = <<"connect">>
             /\ state' = "Failed"
             /\ version' = None
             /\ result' = Raised("OSError", "connect failed", "connect")
             /\ exchanges' = 0
             /\ UNCHANGED <<sent, received, answer>>
        ELSE \E g \in {GetVersion(transport, rx)} :
                 /\ phases' = <<"connect", "get_version">>
                 /\ state' = IF g.result.kind = "return" THEN "Ready" ELSE "Failed"
                 /\ version' = g.version
                 /\ result' = g.result
                 /\ exchanges' = g.exchanges
                 /\ sent' = g.sent
                 /\ received' = rx
                 /\ answer' = g.answer
    /\ args' = <<>>
    /\ UNCHANGED <<transport, status_powerstep01, nreq, req_id, buffer, request,
                   parsed, reply, mode>>
    /\ UNCHANGED <<escVars, concVars, pc>>

\* get_version called on a Ready client; it builds no frame
get_version(answers) ==
    /\ pc = "run" /\ state = "Ready"
    /\ op' = "get_version"
    /\ args' = <<>>
    /\ \E rx \in RxOf(transport, answers, {<<0, 7>>}) :
        \E g \in {GetVersion(transport, rx)} :
            /\ version' = StoredVersion(version, g)
            /\ result' = g.result
            /\ exchanges' = g.exchanges
            /\ sent' = g.sent
            /\ received' = rx
            /\ answer' = g.answer
    /\ buffer' = <<>> /\ request' = <<>> /\ parsed' = NotParsed /\ reply' = NoReply
    /\ UNCHANGED <<transport, state, phases, cmd_id, status_powerstep01, nreq,
                   req_id, mode>>
    /\ UNCHANGED <<escVars, concVars, pc>>

Executed_no_advance_on_failure(name, a, e, rx, res) ==
    /\ op' = name
    /\ args' = a
    /\ nreq' = nreq + 1
    /\ req_id' = cmd_id
    /\ cmd_id' = IF res.kind = "raise" THEN cmd_id ELSE NextCmdId(cmd_id)
    /\ buffer' = e.buffer
    /\ request' = e.request
    /\ sent' = e.sent
    /\ exchanges' = e.exchanges
    /\ received' = rx
    /\ answer' = e.answer
    /\ parsed' = e.parsed
    /\ reply' = e.reply
    /\ result' = res
    /\ UNCHANGED <<transport, state, phases, version, status_powerstep01, mode>>
    /\ UNCHANGED <<escVars, concVars, pc>>

\* the state one _execute call leaves, e being what it produced
Executed(name, a, e, rx, res) ==
    /\ op' = name
    /\ args' = a
    /\ nreq' = nreq + 1
    /\ req_id' = cmd_id
    /\ cmd_id' = NextCmdId(cmd_id)
    /\ buffer' = e.buffer
    /\ request' = e.request
    /\ sent' = e.sent
    /\ exchanges' = e.exchanges
    /\ received' = rx
    /\ answer' = e.answer
    /\ parsed' = e.parsed
    /\ reply' = e.reply
    /\ result' = res
    /\ UNCHANGED <<transport, state, phases, version, status_powerstep01, mode>>
    /\ UNCHANGED <<escVars, concVars, pc>>

set_max_speed(frames, limit) ==
    /\ pc = "run" /\ state = "Ready" /\ nreq < limit
    /\ \E speed \in Speeds, rx \in RxOf(transport, frames, LeanReplies) :
        \E mem \in MemBehind(transport, rx) :
            \E e \in {_set_param(transport, version, cmd_id,
                                  "CMD_POWERSTEP01_SET_MAX_SPEED", "OK", speed, rx, mem)} :
                Executed("set_max_speed", <<speed>>, e, rx, e.result)

get_max_speed(frames, limit) ==
    /\ pc = "run" /\ state = "Ready" /\ nreq < limit
    /\ \E rx \in RxOf(transport, frames, LeanReplies) :
        \E mem \in MemBehind(transport, rx) :
            \E e \in {_get_param(transport, version, cmd_id,
                                  "CMD_POWERSTEP01_GET_MAX_SPEED", "COMMAND_GET_MAX_SPEED",
                                  rx, mem)} :
                Executed("get_max_speed", <<>>, e, rx, e.result)

get_rele(frames, limit) ==
    /\ pc = "run" /\ state = "Ready" /\ nreq < limit
    /\ \E rx \in RxOf(transport, frames, LeanReplies) :
        \E mem \in MemBehind(transport, rx) :
            \E e \in {_get_param(transport, version, cmd_id,
                                  "CMD_POWERSTEP01_GET_RELE", "OK", rx, mem)} :
                Executed("get_rele", <<>>, e, rx, GetReleResult(e.result))

authorization(frames, passwords, limit) ==
    /\ pc = "run" /\ state = "Ready" /\ nreq < limit
    /\ \E password \in passwords, rx \in RxOf(transport, frames, {}) :
        \E mem \in MemBehind(transport, rx) :
            \E e \in {_password(transport, version, cmd_id, "CODE_CMD_REQUEST",
                                 "OK_ACCESS", password, rx, mem)} :
                Executed("authorization", <<password>>, e, rx, e.result)

set_password(frames, passwords, limit) ==
    /\ pc = "run" /\ state = "Ready" /\ nreq < limit
    /\ \E password \in passwords, rx \in RxOf(transport, frames, {}) :
        \E mem \in MemBehind(transport, rx) :
            \E e \in {_password(transport, version, cmd_id, "CODE_CMD_PASSWORD_SET",
                                 "OK", password, rx, mem)} :
                Executed("set_password", <<password>>, e, rx, e.result)

get_lan_config(frames, limit) ==
    /\ pc = "run" /\ state = "Ready" /\ nreq < limit
    /\ \E rx \in RxOf(transport, frames, {}), mem \in MemBytes :
        \E e \in {_config_or_stats(transport, version, cmd_id, "CODE_CMD_CONFIG_GET",
                                    "SMSD_LAN_CONFIG_TYPE", rx, mem)} :
            Executed("get_lan_config", <<>>, e, rx, FieldsOf(e.result))

get_error_statistics(frames, limit) ==
    /\ pc = "run" /\ state = "Ready" /\ nreq < limit
    /\ \E rx \in RxOf(transport, frames, {}), mem \in MemBytes :
        \E e \in {_config_or_stats(transport, version, cmd_id, "CODE_CMD_ERROR_GET",
                                    "LAN_ERROR_STATISTICS", rx, mem)} :
            Executed("get_error_statistics", <<>>, e, rx, FieldsOf(e.result))

Next ==
    \/ BaseClient_init(HandshakeAnswers)
    \/ get_version(RehandshakeAnswers)
    \/ set_max_speed(Replies, MaxRequests)
    \/ get_max_speed(Replies, MaxRequests)
    \/ get_rele(Replies, MaxRequests)

Spec == Init /\ [][Next]_vars

\* the same client followed for a whole cycle of the sequence id, the
\* controller answering OK or not at all
WrapNext ==
    \/ BaseClient_init(LeanHandshakeAnswers)
    \/ set_max_speed(LeanReplies, WrapRequests)
    \/ get_max_speed(LeanReplies, WrapRequests)
    \/ get_rele(LeanReplies, WrapRequests)

SpecWrap == Init /\ [][WrapNext]_vars

\* the client authorising and changing the password
AuthNext ==
    \/ BaseClient_init(LeanHandshakeAnswers)
    \/ authorization(AuthReplies, Passwords, MaxRequests)
    \/ set_password(AuthReplies, Passwords, MaxRequests)

SpecAuth == Init /\ [][AuthNext]_vars

\* The client with the two read-only queries
ConfigNext ==
    \/ BaseClient_init(LeanHandshakeAnswers)
    \/ get_lan_config(ConfigReplies, MaxRequests)
    \/ get_error_statistics(ConfigReplies, MaxRequests)

SpecConfig == Init /\ [][ConfigNext]_vars

----------------------------------------------------------------------------
\* Two callers on one TCP client object

\* the operations the callers issue
ConcOps ==
    {[name |-> "set_max_speed", command |-> "CMD_POWERSTEP01_SET_MAX_SPEED",
      expected |-> "OK", value |-> v, write |-> TRUE] : v \in Speeds}
    \cup {[name |-> "get_max_speed", command |-> "CMD_POWERSTEP01_GET_MAX_SPEED",
            expected |-> "COMMAND_GET_MAX_SPEED", value |-> 0, write |-> FALSE]}

\* the controller's reply to a request: its type and id, and the outcome
\* code of the motor command in it
DeviceReply(req) ==
    IF req[6] = ValueOf(COMMAND, "CMD_POWERSTEP01_GET_MAX_SPEED")
    THEN DeviceFrame(2, req[2], req[3],
                     ReplyPayload(ValueOf(ERROR_OR_COMMAND, "COMMAND_GET_MAX_SPEED"), 250, 0))
    ELSE DeviceFrame(2, req[2], req[3],
                     ReplyPayload(ValueOf(ERROR_OR_COMMAND, "OK"), 0, 0))

\* the bytes of the first k replies waiting in the socket
RECURSIVE Pending(_, _)
Pending(replies, k) ==
    IF k = 0 THEN <<>> ELSE replies[1].bytes \o Pending(Tail(replies), k - 1)

ConcInit ==
    /\ packet = <<>> /\ escaped = <<>> /\ unescaped = <<>> /\ pc = "shared"
    /\ transport = "tcp"
    /\ state = "Ready"
    /\ phases = <<"connect", "get_version">>
    /\ version = 7
    /\ cmd_id \in {0, 255}
    /\ status_powerstep01 = None
    /\ NoOperation
    /\ callers = [c \in Callers |-> IdleCaller]
    /\ socket = EmptySocket
    /\ serialized \in BOOLEAN
    /\ holder = "-"

\* caller c enters an operation: _make_request takes the next sequence id
CallerBuild(c) ==
    /\ pc = "shared"
    /\ callers[c].pc \in {"idle", "done"}
    /\ callers[c].calls < MaxCalls
    /\ serialized => holder = "-"
    /\ holder' = IF serialized THEN c ELSE holder
    /\ \E o \in ConcOps :
        \E e \in {_powerstep01(transport, version, cmd_id, o.command, o.expected,
                                o.value, o.write, NoRx, 0)} :
            callers' = [callers EXCEPT ![c] =
                           [IdleCaller EXCEPT !.pc = "built", !.op = o.name,
                                              !.expected = ValueOf(ERROR_OR_COMMAND, o.expected),
                                              !.write = o.write,
                                              !.request = e.request,
                                              !.calls = callers[c].calls + 1]]
    /\ cmd_id' = NextCmdId(cmd_id)
    /\ UNCHANGED <<escVars, pc, objVars_but_cmd_id, opVars, socket, serialized>>

\* caller c's sendall
CallerSend(c) ==
    /\ pc = "shared"
    /\ callers[c].pc = "built"
    /\ socket' = [socket EXCEPT !.toDevice =
                      Append(@, [from |-> c,
                                 bytes |-> (_bus_exchange(transport, callers[c].request,
                                                          NoRx)).sent])]
    /\ callers' = [d \in Callers |->
                      IF d = c THEN [callers[d] EXCEPT !.pc = "sent"]
                      ELSE IF callers[d].pc = "sent"
                      THEN [callers[d] EXCEPT !.overtaken = TRUE]
                      ELSE callers[d]]
    /\ UNCHANGED <<escVars, pc, objVars, opVars, serialized, holder>>

\* the controller answers the oldest request
DeviceAnswers ==
    /\ pc = "shared"
    /\ socket.toDevice # <<>>
    /\ socket' = [toDevice |-> Tail(socket.toDevice),
                  toClient |-> Append(socket.toClient,
                                      [to |-> Head(socket.toDevice).from,
                                       bytes |-> DeviceReply(Head(socket.toDevice).bytes)])]
    /\ UNCHANGED <<escVars, pc, objVars, opVars, callers, serialized, holder>>

\* caller c's recv without taking the bytes out of the socket
CallerReceive_peek(c) ==
    /\ pc = "shared"
    /\ callers[c].pc = "sent"
    /\ socket.toClient # <<>>
    /\ \E k \in 1..Len(socket.toClient) :
        \E ans \in {Delivered(transport, [timeout |-> FALSE,
                                          bytes |-> Pending(socket.toClient, k)])} :
            /\ callers' = [callers EXCEPT
                               ![c].pc = "done",
                               ![c].answer = ans,
                               ![c].took = socket.toClient[1].to,
                               ![c].result = (ExecuteAnswer(ans, callers[c].expected,
                                                            callers[c].write, 0)).result]
            /\ socket' = socket
    /\ holder' = IF serialized THEN "-" ELSE holder
    /\ UNCHANGED <<escVars, pc, objVars, opVars, serialized>>

\* caller c's recv(2048) takes what waits in the socket, one reply or more,
\* and the rest of _execute parses it
CallerReceive(c) ==
    /\ pc = "shared"
    /\ callers[c].pc = "sent"
    /\ socket.toClient # <<>>
    /\ \E k \in 1..Len(socket.toClient) :
        \E ans \in {Delivered(transport, [timeout |-> FALSE,
                                          bytes |-> Pending(socket.toClient, k)])} :
            /\ callers' = [callers EXCEPT
                               ![c].pc = "done",
                               ![c].answer = ans,
                               ![c].took = socket.toClient[1].to,
                               ![c].result = (ExecuteAnswer(ans, callers[c].expected,
                                                            callers[c].write, 0)).result]
            /\ socket' = [socket EXCEPT !.toClient =
                              SubSeq(@, k + 1, Len(socket.toClient))]
    /\ holder' = IF serialized THEN "-" ELSE holder
    /\ UNCHANGED <<escVars, pc, objVars, opVars, serialized>>

ConcNext ==
    \/ \E c \in Callers : CallerBuild(c)
    \/ \E c \in Callers : CallerSend(c)
    \/ DeviceAnswers
    \/ \E c \in Callers : CallerReceive(c)

SpecConc == ConcInit /\ [][ConcNext]_vars

\* the mode settings a caller wants stored: legal values of the six fields
ModeRecords ==
    [current_or_voltage : {0, 1}, motor_type : {0, 30, 63},
     microstepping : {0, 4, 7}, work_current : {0, 10, 127},
     stop_current : {0, 3}, program_n : {0, 3}]

ModeInit ==
    /\ packet = <<>> /\ escaped = <<>> /\ unescaped = <<>> /\ pc = "input"
    /\ transport = "tcp"
    /\ state = "Ready"
    /\ phases = <<"connect", "get_version">>
    /\ version = 7
    /\ cmd_id = 0
    /\ status_powerstep01 = None
    /\ Idle

\* set_mode called with the five settings it accepts: the motor command it
\* hands to _set_param
set_mode ==
    /\ pc = "input"
    /\ \E m \in ModeRecords :
        /\ args' = <<m>>
        /\ buffer' = SMSD_CMD_TYPE_bytes(
                         ValueOf(COMMAND, "CMD_POWERSTEP01_SET_MODE"),
                         set_mode_value(m.current_or_voltage, m.motor_type,
                                        m.microstepping, m.work_current,
                                        m.stop_current))
    /\ op' = "set_mode"
    /\ pc' = "encoded"
    /\ UNCHANGED <<escVars, concVars, objVars, nreq, req_id, request, sent, exchanges,
                   received, answer, parsed, reply, result, mode>>

\* get_mode, the controller reporting the value set_mode sent
get_mode ==
    /\ pc = "encoded"
    /\ \E r \in {COMMANDS_RETURN_DATA_TYPE_cast(
                     ReplyPayload(ValueOf(ERROR_OR_COMMAND, "COMMAND_GET_MODE"),
                                  Signed32(buffer[2], buffer[3], buffer[4], buffer[5]),
                                  0), 0)} :
        /\ reply' = r
        /\ mode' = get_mode_fields(r.RETURN_DATA)
    /\ op' = "get_mode"
    /\ pc' = "decoded"
    /\ UNCHANGED <<escVars, concVars, objVars, nreq, req_id, buffer, request, sent,
                   exchanges, received, answer, parsed, result, args>>

ModeNext == set_mode \/ get_mode

SpecMode == ModeInit /\ [][ModeNext]_vars

----------------------------------------------------------------------------
\* Specification of the frame codec alone: a Ready client builds one frame,
\* which is then parsed as it is, or with one payload byte changed

FrameBytes == {0, 1, 128, 255}

LongLens == {255, 256, DataSize}

FramePayloads ==
    SeqsUpTo(FrameBytes, MaxPayloadLen)
        \cup {[i \in 1..n |-> b] : n \in LongLens, b \in {0, 255}}

\* payload positions whose byte is changed
MutPositions(n) == {i \in 1..n : i <= MaxPayloadLen \/ i = n}

FrameInit ==
    /\ packet = <<>> /\ escaped = <<>> /\ unescaped = <<>> /\ pc = "input"
    /\ transport = "tcp"
    /\ state = "Ready"
    /\ phases = <<"connect", "get_version">>
    /\ version \in {0, 7, 255}
    /\ cmd_id \in {0, 255}
    /\ status_powerstep01 = None
    /\ Idle

BuildRequest ==
    /\ pc = "input"
    /\ \E command \in {"CODE_CMD_REQUEST", "CODE_CMD_POWERSTEP01"},
          buf \in FramePayloads :
        /\ request' = _make_request(version, cmd_id, ValueOf(CMD_TYPE, command),
                                    Len(buf), buf)
        /\ buffer' = buf
        /\ op' = command
    /\ req_id' = cmd_id
    /\ cmd_id' = NextCmdId(cmd_id)
    /\ nreq' = nreq + 1
    /\ pc' = "built"
    /\ UNCHANGED <<escVars, concVars, objVars_but_cmd_id, sent, exchanges, received,
                   answer, parsed, reply, result, args, mode>>

Parse(buf, next) ==
    /\ \E mem \in MemBytes :
        \E a \in {ExecuteAnswer(buf, ValueOf(ERROR_OR_COMMAND, "OK"), FALSE, mem)} :
            /\ answer' = buf
            /\ parsed' = a.parsed
            /\ reply' = a.reply
            /\ result' = a.result
    /\ pc' = next
    /\ UNCHANGED <<escVars, concVars, objVars, op, nreq, req_id, buffer, request, sent,
                   exchanges, received, args, mode>>

ParseRequest ==
    /\ pc = "built"
    /\ Parse(request, "parsed")

ParseMutated ==
    /\ pc = "built"
    /\ \E i \in MutPositions(Len(buffer)) :
        \E b \in (FrameBytes \cup {(request[5 + i] + 1) % 256}) \ {request[5 + i]} :
            Parse([request EXCEPT ![5 + i] = b], "mutated")

FrameNext == BuildRequest \/ ParseRequest \/ ParseMutated

SpecFrame == FrameInit /\ [][FrameNext]_vars

----------------------------------------------------------------------------
\* Specification of the escape layer alone

EscInit ==
    /\ packet \in SeqsUpTo(EscBytes, MaxPacketLen)
    /\ escaped = <<>>
    /\ unescaped = <<>>
    /\ pc = "input"
    /\ transport = "usb"
    /\ state = "Disconnected"
    /\ phases = <<>>
    /\ version = None
    /\ cmd_id = 0
    /\ status_powerstep01 = None
    /\ Idle

DoEscape ==
    /\ pc = "input"
    /\ escaped' = _escape(packet)
    /\ pc' = "escaped"
    /\ UNCHANGED <<concVars, packet, unescaped, objVars, opVars>>

DoUnescape ==
    /\ pc = "escaped"
    /\ unescaped' = _unescape(escaped)
    /\ pc' = "unescaped"
    /\ UNCHANGED <<concVars, packet, escaped, objVars, opVars>>

\* _unescape applied to the stream a controller sends for the frame `packet`
DoUnstuff ==
    /\ pc = "input"
    /\ received' = [timeout |-> FALSE, bytes |-> Stuffed(packet)]
    /\ unescaped' = _unescape(Stuffed(packet))
    /\ pc' = "unstuffed"
    /\ UNCHANGED <<concVars, packet, escaped, objVars, op, nreq, req_id, buffer, request,
                   sent, exchanges, answer, parsed, reply, result, args, mode>>

EscNext == DoEscape \/ DoUnescape \/ DoUnstuff

SpecEscape == EscInit /\ [][EscNext]_vars

----------------------------------------------------------------------------
\* Claims about the escape layer (SpecEscape)

\* C1: for every byte sequence p, _unescape(_escape(p)) = p
C1_RoundTrip == pc = "unescaped" => unescaped = packet

\* C2: _escape(f) is 0xFA, f with each reserved byte replaced by exactly its
\* two-byte pair and every other byte copied, then 0xFB; its length is
\* len(f) + 2 + the number of reserved bytes in f
C2_EscapeIsStuffing ==
    pc \in {"escaped", "unescaped"} =>
        /\ escaped = Stuffed(packet)
        /\ Len(escaped) = Len(packet) + 2
               + Cardinality({i \in 1..Len(packet) : packet[i] \in {250, 251, 254}})

\* C26: for every frame f, _unescape applied to the correctly stuffed stream
\* of f (0xFA, f with each reserved byte replaced by its pair, 0xFB) returns
\* exactly f
C26_UnescapeInvertsStuffing ==
    pc = "unstuffed" =>
        /\ received.bytes = Stuffed(packet)
        /\ unescaped = packet

C26_EscapeByteBeforePairByte ==
    /\ pc = "unstuffed"
    /\ Len(packet) = MaxPacketLen
    /\ packet[1] = 254
    /\ packet[2] \in {122, 123, 126}
    /\ packet[3] \in {250, 251}
    /\ unescaped = packet

\* C28: for every frame f, the bytes of _escape(f) strictly between its first
\* and its last byte contain neither 0xFA nor 0xFB: the markers occur only at
\* the two ends of a packet written to the serial port
C28_MarkersOnlyAtEnds ==
    pc \in {"escaped", "unescaped"} =>
        /\ Len(escaped) >= 2
        /\ escaped[1] = 250
        /\ escaped[Len(escaped)] = 251
        /\ \A i \in 2..(Len(escaped) - 1) : escaped[i] \notin {250, 251}

C28_BothMarkersInFrame ==
    /\ pc = "escaped"
    /\ \E i, j \in 1..Len(packet) : packet[i] = 250 /\ packet[j] = 251
    /\ Len(escaped) > Len(packet) + 2

----------------------------------------------------------------------------
\* Claims about the frame codec (SpecFrame)

\* C3: the checksum byte of every frame _make_request builds is the two's
\* complement, mod 256, of the sum of version, type, id, length-low,
\* length-high and the payload bytes, and _parse_answer accepts that frame
\* and returns exactly the payload
C3_ChecksumAndRoundTrip ==
    pc \in {"built", "parsed", "mutated"} =>
        LET n == Len(buffer)
            total == version + ValueOf(CMD_TYPE, op) + req_id + (n % 256) + (n \div 256)
                         + Sum(buffer)
        IN  /\ (request[Len(request)] + total) % 256 = 0
            /\ request[Len(request)] \in 0..255
            /\ pc = "parsed" => parsed.ok /\ parsed.data = buffer

C3_LongFrameParsed ==
    /\ pc = "parsed"
    /\ Len(buffer) = DataSize
    /\ buffer[1] = 255
    /\ parsed.ok

C4_MutationRejected ==
    pc = "mutated" =>
        /\ ~parsed.ok
        /\ parsed.data = <<>>
        /\ reply = NoReply
        /\ result = Raised("SMSDError", "Invalid message checksum", "parse")

C4_LongFrameMutated ==
    /\ pc = "mutated"
    /\ Len(buffer) = DataSize
    /\ answer[5 + DataSize] # request[5 + DataSize]
    /\ result.kind = "raise"

----------------------------------------------------------------------------
\* Claims about the dispatcher (Spec)

MotorOps == {"set_max_speed", "get_max_speed", "get_rele"}

ExpectedOf(o) ==
    ValueOf(ERROR_OR_COMMAND,
            IF o = "get_max_speed" THEN "COMMAND_GET_MAX_SPEED" ELSE "OK")

\* the last operation got a checksum-valid reply holding a whole envelope
ValidReply == parsed.ok /\ Len(parsed.data) >= 8

OutcomeRule(ops) ==
    (op \in ops /\ ValidReply) =>
        /\ reply.ERROR_OR_COMMAND = ExpectedOf(op) =>
               result = IF op = "set_max_speed"
                        THEN Returned("bool", 1, "compare")
                        ELSE Returned("int", reply.RETURN_DATA, "compare")
        /\ (/\ reply.ERROR_OR_COMMAND # ExpectedOf(op)
            /\ IsMember(ERROR_OR_COMMAND, reply.ERROR_OR_COMMAND)) =>
               result = Raised("SMSDError",
                               NameOf(ERROR_OR_COMMAND, reply.ERROR_OR_COMMAND),
                               "compare")

C6_GetRele ==
    (op = "get_rele" /\ ValidReply) =>
        /\ reply.ERROR_OR_COMMAND = ValueOf(ERROR_OR_COMMAND, "STATUS_RELE_SET") =>
               result = Returned("int", 1, "compare")
        /\ reply.ERROR_OR_COMMAND = ValueOf(ERROR_OR_COMMAND, "STATUS_RELE_CLR") =>
               result = Returned("int", 0, "compare")
        /\ reply.ERROR_OR_COMMAND \notin
               {ValueOf(ERROR_OR_COMMAND, n) : n \in {"STATUS_RELE_SET", "STATUS_RELE_CLR", "OK"}} =>
               result.kind = "raise"

C6_RelaySet ==
    /\ op = "get_rele"
    /\ ValidReply
    /\ reply.ERROR_OR_COMMAND = ValueOf(ERROR_OR_COMMAND, "STATUS_RELE_SET")
    /\ result = Returned("int", 1, "compare")

\* C7: after a motor-command exchange with a checksum-valid reply the cached
\* PowerstepStatus equals the reply's powerstepStatus, also when the
\* operation raises an outcome mismatch
C7_StatusRefreshed ==
    (op \in MotorOps /\ ValidReply) =>
        status_powerstep01 = reply.STATUS_POWERSTEP01

\* the packet get_version hands to the transport, as the transport writes it
EmptyPacketSent == IF transport = "usb" THEN <<250, 251>> ELSE <<>>

Handshaken == op = "__init__" /\ phases = <<"connect", "get_version">>

\* C8 as stated: the handshake is one exchange with an empty payload and a
\* non-empty reply stores the reply byte at offset 1 as the version
C8_NonEmptyStoresVersion ==
    Handshaken =>
        /\ exchanges = 1
        /\ sent = EmptyPacketSent
        /\ answer # <<>> => Len(answer) >= 2 /\ version = answer[2]

\* C8 amended: a reply of two bytes or more stores the byte at offset 1
\* ([0x00, 0x07, ...] gives 7); a one-byte reply stores nothing and
\* get_version fails with an index error
C8_VersionFromSecondByte ==
    Handshaken =>
        /\ exchanges = 1
        /\ sent = EmptyPacketSent
        /\ Len(answer) >= 2 =>
               /\ version = answer[2]
               /\ state = "Ready"
               /\ result = Returned("bool", 1, "version")
               /\ (answer[1] = 0 /\ answer[2] = 7) => version = 7
        /\ Len(answer) = 1 =>
               /\ version = None
               /\ state = "Failed"
               /\ result.kind = "raise" /\ result.exc = "IndexError"

C8_VersionSeven ==
    /\ Handshaken
    /\ answer = <<0, 7, 0, 0, 0, 249>>
    /\ version = 7
    /\ state = "Ready"

NoBytesReceived == Handshaken /\ received.bytes = <<>>

\* C9 as stated: on either transport a handshake exchange that receives no
\* bytes fails with "Get protocol version error", the version stays unset,
\* the client never reaches Ready and exactly one exchange was attempted
C9_NoBytesVersionError ==
    NoBytesReceived =>
        /\ result = Raised("SMSDError", "Get protocol version error", "empty")
        /\ version = None
        /\ state # "Ready"
        /\ exchanges = 1

\* C9 amended: the version error is raised when recv returns an empty string
\* on TCP; a TCP timeout surfaces as the socket's timeout and on the serial
\* port the exchange fails first with "Invalid message format"; in every case
\* the version stays unset, the client is not Ready and one exchange was made
C9_NoBytesFails ==
    /\ NoBytesReceived =>
        /\ version = None
        /\ state = "Failed"
        /\ exchanges = 1
        /\ result.kind = "raise"
        /\ (transport = "tcp" /\ ~received.timeout) =>
               result = Raised("SMSDError", "Get protocol version error", "empty")
        /\ (transport = "tcp" /\ received.timeout) =>
               result.exc = "timeout" /\ result.stage = "exchange"
        /\ transport = "usb" =>
               result.msg = "Invalid message format" /\ result.stage = "exchange"
    /\ state = "Failed" => nreq = 0 /\ version = None

C9_SerialNoBytes ==
    /\ NoBytesReceived
    /\ transport = "usb"
    /\ result.msg = "Invalid message format"
    /\ state = "Failed"

----------------------------------------------------------------------------
\* Claims about the sequence id (SpecWrap)

\* C10: the n-th request frame (from 0, the handshake not counted) carries id
\* n mod 256, the id is always in 0..255, and after 256 requests it is back
\* at its starting value
C10_SequenceIdWraps ==
    /\ cmd_id \in 0..255
    /\ cmd_id = nreq % 256
    /\ nreq > 0 =>
           /\ req_id = (nreq - 1) % 256
           /\ request[3] = req_id

C10_Wrapped ==
    /\ nreq = 257
    /\ req_id = 0
    /\ request[3] = 0

----------------------------------------------------------------------------
\* Claims about the sequence counter and the exchanges of an operation (Spec)

\* C11 as stated: every public operation issued in Ready advances the
\* sequence counter exactly once, whether it succeeds or fails
C11_EveryOperationAdvances ==
    [][state = "Ready" => cmd_id' = (cmd_id + 1) % 256]_vars

\* C11 amended: every public operation issued in Ready other than get_version
\* builds one frame and advances the counter exactly once, whether it
\* succeeds or fails; get_version builds no frame and leaves the counter
\* alone, and so does every step taken before Ready
C11_FrameOperationsAdvance ==
    [][/\ state = "Ready" =>
            IF op' = "get_version"
            THEN cmd_id' = cmd_id /\ nreq' = nreq
            ELSE /\ cmd_id' = (cmd_id + 1) % 256
                 /\ nreq' = nreq + 1
                 /\ req_id' = cmd_id
                 /\ request'[3] = cmd_id
       /\ state # "Ready" => cmd_id' = cmd_id /\ nreq' = nreq]_vars

C11_AdvancedAfterFailures ==
    /\ op \in MotorOps
    /\ nreq = 2
    /\ cmd_id = 2
    /\ result = Raised("SMSDError", "Invalid message checksum", "parse")

\* the bytes one exchange of the last request writes
RequestOnWire == IF transport = "usb" THEN _escape(request) ELSE request

\* C12: every public operation performs at most one transport exchange; after
\* a failure it raises without sending or reading again
C12_SingleExchange ==
    /\ exchanges \in {0, 1}
    /\ op \in MotorOps => exchanges = 1 /\ sent = RequestOnWire
    /\ op = "get_version" => exchanges = 1 /\ sent = EmptyPacketSent

C12_RaisedAfterOneExchange ==
    /\ op = "get_max_speed"
    /\ result.kind = "raise"
    /\ result.stage = "compare"
    /\ exchanges = 1
    /\ sent = RequestOnWire

\* C13: an operation with an expected outcome code, issued in Ready, either
\* returns after a reply whose outcome code matched or raises an error, also
\* when the exchange returns an empty byte string
C13_SuccessOrError ==
    op \in MotorOps =>
        \/ result.kind = "raise"
        \/ /\ result.kind = "return"
           /\ result.stage = "compare"
           /\ parsed.ok
           /\ reply.ERROR_OR_COMMAND = ExpectedOf(op)

\* the bytes read from the serial port lack a marker
BadMarkers(raw) == raw = <<>> \/ raw[1] # 250 \/ raw[Len(raw)] # 251

\* C14: on the serial transport a received buffer that is empty, does not
\* start with 0xFA or does not end with 0xFB fails the exchange with the
\* protocol error SMSDError "Invalid message format"; the buffer is neither
\* un-stuffed nor parsed
C14_InvalidFormatError ==
    (transport = "usb" /\ exchanges = 1 /\ BadMarkers(received.bytes)) =>
        /\ result = Raised("SMSDError", "Invalid message format", "exchange")
        /\ answer = <<>>
        /\ parsed = NotParsed

----------------------------------------------------------------------------
\* Claims about the password payload (SpecAuth)

PasswordOps == {"authorization", "set_password"}

\* C15: the payload of authorization and set_password is always 8 bytes: the
\* default EF CD AB 89 67 45 23 01 when no password is given, the 8 bytes of
\* an 8-character password, the first 8 bytes of a longer one, and the bytes
\* of a shorter one followed by zero bytes
C15_PasswordPayload ==
    op \in PasswordOps =>
        LET password == args[1]
            n == Len(password.chars)
        IN  /\ Len(buffer) = 8
            /\ request[4] = 8 /\ request[5] = 0
            /\ SubSeq(request, 6, 13) = buffer
            /\ Len(request) = 14
            /\ ~Truthy(password) => buffer = DefaultPassword
            /\ n = 8 => buffer = password.chars
            /\ n > 8 => buffer = SubSeq(password.chars, 1, 8)
            /\ n \in 1..7 =>
                   /\ SubSeq(buffer, 1, n) = password.chars
                   /\ \A i \in (n + 1)..8 : buffer[i] = 0

C15_ShortPasswordPadded ==
    /\ op = "authorization"
    /\ args = <<Password(<<49>>)>>
    /\ buffer = <<49, 0, 0, 0, 0, 0, 0, 0>>
    /\ SubSeq(request, 6, 13) = buffer

----------------------------------------------------------------------------
\* Claims about the mode bitfield (SpecMode)

\* C16: for all legal values of the six mode fields, get_mode decodes from
\* the value set_mode encodes every one of the six fields unchanged
C16_ModeRoundTrip == pc = "decoded" => mode = args[1]

----------------------------------------------------------------------------
\* Claims about outcome codes, the handshake and short replies (Spec)

\* C17: a checksum-valid reply whose outcome code is neither the expected one
\* nor in the catalogue makes the operation fail with SMSDError
\* "Unknown Code", the error type of the other outcome mismatches
C17_UnknownCodeError ==
    (/\ op \in MotorOps
     /\ ValidReply
     /\ reply.ERROR_OR_COMMAND # ExpectedOf(op)
     /\ ~IsMember(ERROR_OR_COMMAND, reply.ERROR_OR_COMMAND)) =>
        result = Raised("SMSDError", "Unknown Code", "compare")

C19_VersionNeverChanges ==
    [][state = "Ready" => version' = version]_vars

\* C19 amended: once the handshake has completed the stored version changes
\* only when get_version is called again and succeeds, to the byte at offset
\* 1 of its answer; no other operation changes it and neither does a
\* get_version that fails
C19_OnlyGetVersionChanges ==
    [][(state = "Ready" /\ version' # version) =>
           /\ op' = "get_version"
           /\ result'.kind = "return"
           /\ Len(answer') >= 2
           /\ version' = answer'[2]]_vars

C19_FailedGetVersionKeeps ==
    /\ state = "Ready"
    /\ op = "get_version"
    /\ result.kind = "raise"
    /\ nreq > 0
    /\ version = 7

\* C20: parsing a truncated reply fails with an error; no payload is
\* returned and no byte that was not received is read
C20_TruncatedFails ==
    (op \in MotorOps /\ answer # <<>> /\ Truncated(answer)) =>
        /\ ~parsed.ok
        /\ parsed.data = <<>>
        /\ result.kind = "raise"

----------------------------------------------------------------------------
\* Claims about the transports (Spec)

\* the last operation's exchange timed out
TimedOut == op # "-" /\ exchanges = 1 /\ received.timeout

\* errors raised by the socket or the serial port
TransportErrors == {"timeout", "OSError"}

\* C21: on both transports an exchange that times out fails with a
\* transport-layer error, not a protocol error, and the request is sent once
C21_TimeoutIsTransportError ==
    TimedOut =>
        /\ result.kind = "raise"
        /\ result.exc \in TransportErrors
        /\ result.msg # "Invalid message format"
        /\ exchanges = 1

\* C22: the escape layer is applied on the serial port only: on TCP the bytes
\* sent are the frame and the bytes parsed are those of one recv of at most
\* 2048 bytes; on the serial port the bytes written are _escape(frame) and
\* the bytes parsed are _unescape(received)
C22_EscapeOnSerialOnly ==
    (op \in MotorOps \cup {"__init__", "get_version"} /\ exchanges = 1) =>
        LET pkt == IF op \in MotorOps THEN request ELSE <<>>
            raw == received.bytes
        IN  /\ transport = "tcp" =>
                   /\ sent = pkt
                   /\ ~received.timeout =>
                          /\ answer = SubSeq(raw, 1, Min(Len(raw), RecvSize))
                          /\ Len(answer) <= RecvSize
            /\ transport = "usb" =>
                   /\ sent = _escape(pkt)
                   /\ ~BadMarkers(raw) => answer = _unescape(raw)

C22_OneReceiveOfMany ==
    /\ transport = "tcp"
    /\ op = "set_max_speed"
    /\ sent = request
    /\ Len(received.bytes) > RecvSize
    /\ Len(answer) = RecvSize
    /\ parsed.ok

----------------------------------------------------------------------------
\* Claims about replies (Spec)

\* the length a frame embeds
EmbeddedLength(buf) == buf[4] + 256 * buf[5]

\* buf begins with a whole frame whose bytes sum to 0 mod 256
ChecksumValid(buf) ==
    /\ ~Truncated(buf)
    /\ EmbeddedLength(buf) <= DataSize
    /\ Sum(SubSeq(buf, 1, 6 + EmbeddedLength(buf))) % 256 = 0

\* C24: the id and the command type of a reply are never compared with the
\* request's: a checksum-valid reply is accepted and decoded whatever id and
\* command type it carries
C24_ReplyIdNotCompared ==
    (op \in MotorOps /\ answer # <<>> /\ ChecksumValid(answer)) =>
        /\ parsed.ok
        /\ parsed.data = SubSeq(answer, 6, 5 + EmbeddedLength(answer))
        /\ result.stage = "compare"

C24_OtherIdAccepted ==
    /\ op = "set_max_speed"
    /\ ChecksumValid(answer)
    /\ answer[3] # request[3]
    /\ answer[2] # request[2]
    /\ result = Returned("bool", 1, "compare")

\* C25: whenever get_rele returns without raising, whatever the outcome code
\* of the reply, its result is 0 or 1
C25_GetReleZeroOrOne ==
    (op = "get_rele" /\ result.kind = "return") =>
        /\ result.vtype = "int"
        /\ result.val \in {0, 1}

----------------------------------------------------------------------------
\* Claims about the read-only queries (SpecConfig)

ConfigOps == {"get_lan_config", "get_error_statistics"}

StructOf(o) ==
    IF o = "get_lan_config" THEN "SMSD_LAN_CONFIG_TYPE" ELSE "LAN_ERROR_STATISTICS"

\* C29: get_lan_config and get_error_statistics send a zero-length payload
\* and compare no outcome code: for every non-empty checksum-valid reply they
\* return the decoded record and raise no outcome-mismatch error, whatever
\* the reply payload contains
C29_QueriesCompareNoCode ==
    op \in ConfigOps =>
        /\ buffer = <<>>
        /\ Len(request) = 6
        /\ request[4] = 0 /\ request[5] = 0
        /\ (answer # <<>> /\ ChecksumValid(answer)) =>
               LET payload == SubSeq(answer, 6, 5 + EmbeddedLength(answer))
               IN  /\ result = Returned("dict", 0, "fields")
                   /\ parsed.ok /\ parsed.data = payload
                   /\ \E mem \in MemBytes : reply = StructCast(StructOf(op), payload, mem)
        /\ result.kind = "raise" => result.stage \in {"exchange", "parse", "fields"}

C29_ErrorCodePayloadReturned ==
    /\ op = "get_lan_config"
    /\ answer = Envelope(ValueOf(ERROR_OR_COMMAND, "END_PROGRAMS"), <<0, 0>>)
    /\ result.kind = "return"
    /\ reply.MAC[1] = ValueOf(ERROR_OR_COMMAND, "END_PROGRAMS")

----------------------------------------------------------------------------
\* Claims about passwords (SpecAuth), continued

\* C30: authorization and set_password called with the empty string encode
\* the same default payload EF CD AB 89 67 45 23 01 as when called with no
\* password, not eight zero bytes
C30_EmptyPasswordIsDefault ==
    (op \in PasswordOps /\ args[1] = Password(<<>>)) =>
        /\ buffer = <<239, 205, 171, 137, 103, 69, 35, 1>>
        /\ buffer = PasswordBuffer(NoPassword)
        /\ buffer # [i \in 1..8 |-> 0]
        /\ SubSeq(request, 6, 13) = buffer

C30_EmptyPasswordSent ==
    /\ op = "set_password"
    /\ args = <<Password(<<>>)>>
    /\ SubSeq(sent, Len(sent) - 8, Len(sent) - 1) = DefaultPassword
    /\ transport = "tcp"
    /\ result = Returned("bool", 1, "compare")

----------------------------------------------------------------------------
\* Claims about callers sharing a client (SpecConc)

\* caller c accepted a reply as the success of its operation
Accepted(c) ==
    /\ callers[c].pc = "done"
    /\ callers[c].result.kind = "return"
    /\ callers[c].result.stage = "compare"

\* C27, second part: with the calls serialized by the callers, each
\* operation's receive follows its own send with no other send in between,
\* and the reply it parses is the reply to its own request
C27_SerializedOwnReply ==
    serialized =>
        /\ Cardinality({c \in Callers : callers[c].pc \in {"built", "sent"}}) <= 1
        /\ \A c \in Callers :
               callers[c].pc = "done" =>
                   /\ ~callers[c].overtaken
                   /\ callers[c].took = c
                   /\ callers[c].answer[3] = callers[c].request[3]
                   /\ Accepted(c)

\* C27, first part: without serialization a state is reachable in which a
\* caller parsed and accepted the reply to the other caller's request
C27_AcceptedOthersReply ==
    /\ ~serialized
    /\ \E c \in Callers :
        /\ Accepted(c)
        /\ callers[c].took # c
        /\ callers[c].answer[3] # callers[c].request[3]

====
